---- MODULE Spec2Model ----
(***************************************************************************)
(* Model of aws_sam_cli_refsolver (src/src/aws_sam_cli_refsolver).         *)
(*                                                                         *)
(* The package is a handful of synchronous functions over a read-only     *)
(* CDK cloud assembly and one remote call (describe_stack_resource).      *)
(* Each function is an operator computed as the code computes it; the     *)
(* actions apply the functions to inputs drawn from bounded sets, and     *)
(* generate_sam_env_vars is a small sequential program (find, extract,    *)
(* one resolve per environment entry, return).                            *)
(*                                                                         *)
(* Strings the code takes apart (aws:cdk:path, the queried identifier,    *)
(* TemplateURL, stack names) are sequences of one-character strings;      *)
(* strings it only passes along are TLA+ strings.                         *)
(***************************************************************************)
EXTENDS Naturals, Sequences, FiniteSets, TLC

VARIABLES
    op,         \* the entry point under call
    pc,         \* position in the call
    assembly,   \* cx_api.CloudAssembly: the sequence assembly.stacks
    boto_session,    \* the session argument: a boto3.Session and its region_name
    cloud,      \* CloudFormation's answer to describe_stack_resource, per logical id
    arg,        \* the call's other arguments
    result,     \* what the call returned or raised
    calls,      \* describe_stack_resource calls issued so far
    local       \* generate_sam_env_vars' local variables

vars == <<op, pc, assembly, boto_session, cloud, arg, result, calls, local>>

---------------------------------------------------------------------------
(* Bounds *)

MaxStacks == 2

MaxResources == 3

\* resources of an assembly given to generate_sam_env_vars, over all its stacks
MaxGenResources == 2

\* entries of a function's Variables
MaxEnv == 2

\* Environment entries of a task definition, over all its containers
MaxEntries == 3

MaxContainers == 2

---------------------------------------------------------------------------
(* Python string operations on sequences of characters *)

\* needle in hay
Contains(hay, needle) ==
    \E i \in 0..Len(hay) :
        /\ i + Len(needle) <= Len(hay)
        /\ SubSeq(hay, i + 1, i + Len(needle)) = needle

\* s.split("/")[-1]
LastSegment(s) ==
    LET slashes == {i \in 1..Len(s) : s[i] = "/"}
        last == IF slashes = {} THEN 0
                ELSE CHOOSE i \in slashes : \A j \in slashes : j <= i
    IN  SubSeq(s, last + 1, Len(s))

\* s.replace(old, ""): every non-overlapping occurrence, left to right
RECURSIVE Remove(_, _)
Remove(s, old) ==
    IF Len(s) = 0 \/ Len(old) = 0 THEN s
    ELSE IF Len(old) <= Len(s) /\ SubSeq(s, 1, Len(old)) = old
         THEN Remove(SubSeq(s, Len(old) + 1, Len(s)), old)
         ELSE <<Head(s)>> \o Remove(Tail(s), old)

DotJson == <<".", "j", "s", "o", "n">>

Slash == <<"/">>

\* Mutant of PathSegment: the identifier is looked for without the slashes
\* around it.
PathSegment_bare(logical_id) == logical_id

\* f"/{logical_id}/"
PathSegment(logical_id) == Slash \o logical_id \o Slash

---------------------------------------------------------------------------
(* Resource types and the shapes of a template's resources *)

LambdaFunction == "AWS::Lambda::Function"

EcsTaskDefinition == "AWS::ECS::TaskDefinition"

NestedStack == "AWS::CloudFormation::Stack"

DynamoTable == "AWS::DynamoDB::Table"

\* resource.get("Type") of a resource without a Type
NoType == "None"

\* A TemplateURL: absent (the .get default ""), a string, or an intrinsic
\* such as {"Fn::Join": ...}
UrlAbsent == [isStr |-> TRUE, s |-> <<>>]

UrlStr(s) == [isStr |-> TRUE, s |-> s]

UrlJoin == [isStr |-> FALSE, s |-> <<>>]

\* Python values as the code tells them apart: None (what dict.get gives for
\* a missing key), a str, an int, or a dict. Of a dict the model keeps whether
\* it has a 'Ref' key, that key's value (rt: its type, s or n: the value) and
\* the one other key it may hold.
PyNone == [t |-> "None", s |-> "", n |-> 0, hasRef |-> FALSE, rt |-> "", other |-> ""]

PyStr(s) == [t |-> "str", s |-> s, n |-> 0, hasRef |-> FALSE, rt |-> "", other |-> ""]

PyInt(n) == [t |-> "int", s |-> "", n |-> n, hasRef |-> FALSE, rt |-> "", other |-> ""]

\* {'Ref': s}
PyRef(s) == [t |-> "dict", s |-> s, n |-> 0, hasRef |-> TRUE, rt |-> "str", other |-> ""]

\* {'Ref': n}
PyRefInt(n) == [t |-> "dict", s |-> "", n |-> n, hasRef |-> TRUE, rt |-> "int", other |-> ""]

\* {'Ref': s, 'Fn::GetAtt': ['T', 'Arn']}
PyRefAnd(s) == [t |-> "dict", s |-> s, n |-> 0, hasRef |-> TRUE, rt |-> "str", other |-> "Fn::GetAtt"]

\* {'Fn::GetAtt': ['T', 'Arn']}
PyGetAtt == [t |-> "dict", s |-> "", n |-> 0, hasRef |-> FALSE, rt |-> "", other |-> "Fn::GetAtt"]

\* {}
PyEmptyDict == [t |-> "dict", s |-> "", n |-> 0, hasRef |-> FALSE, rt |-> "", other |-> ""]

\* bool(v), as `if name and value` takes it
Truthy(v) ==
    CASE v.t = "None" -> FALSE
      [] v.t = "str" -> v.s # ""
      [] v.t = "int" -> v.n # 0
      [] v.t = "dict" -> v.hasRef \/ v.other # ""

\* str(v) of an int below ten, of a str, of None and of a dict without 'Ref'
str(v) ==
    CASE v.t = "str" -> v.s
      [] v.t = "int" -> <<"0", "1", "2", "3", "4", "5", "6", "7", "8", "9">>[v.n + 1]
      [] v.t = "None" -> "None"
      [] v.t = "dict" -> IF v.other = "" THEN "{}" ELSE "{'Fn::GetAtt': ['T', 'Arn']}"

\* A resource's Properties. level is the deepest key present on the way
\* Properties > Environment > Variables ("absent": no Properties at all);
\* Variables is the function's mapping as its items in order;
\* ContainerDefinitions is the list of containers, each the list of its
\* Environment entries [Name, Value] ([] for a container without one).
Props(level, variables, containers) ==
    [level |-> level, Variables |-> variables, ContainerDefinitions |-> containers]

NoProperties == Props("absent", <<>>, <<>>)

\* A resource of a template (one value of template["Resources"]): Type,
\* Metadata["aws:cdk:path"] ("" when absent), Properties.TemplateURL and the
\* rest of Properties.
Resource(type, path, url, properties) ==
    [Type |-> type, path |-> path, url |-> url, Properties |-> properties]

\* stack.stack_name by position in assembly.stacks
StackName(k) == <<<<"A">>, <<"B">>, <<"C">>, <<"D">>>>[k]

\* the synthesized identifier (key of Resources) by position in the template;
\* a template is the sequence of its Resources items, [id, resource]
CfnId(ri) == <<"R1", "R2", "R3", "R4", "R5">>[ri]

\* stack.environment.region by position in assembly.stacks
StackRegion(k) == <<"eu-west-1", "unknown-region", "eu-west-1", "unknown-region">>[k]

---------------------------------------------------------------------------
(* find_resource *)

\* Python's recursion limit, scaled to the assembly: a chain of search_stack
\* frames longer than the number of stacks repeats a stack, and a repeated
\* frame repeats its own call, so the recursion never ends by itself.
RecursionLimit == MaxStacks + 1

NoResource == Resource(NoType, <<>>, UrlAbsent, NoProperties)

\* `return None`
NotFound(log) ==
    [kind |-> "None", resource |-> NoResource, stack |-> 0, id |-> "", log |-> log]

\* Mutant of Found: the stack handed back is the first stack of the assembly
\* instead of the one whose template was being searched.
Found_first_stack(resource, current_stack, CFN_logical_id, log) ==
    [kind |-> "found", resource |-> resource, stack |-> 1,
     id |-> CFN_logical_id, log |-> log]

\* `return resource, current_stack, CFN_logical_id`; the stack object is
\* named by its position in assembly.stacks
Found(resource, current_stack, CFN_logical_id, log) ==
    [kind |-> "found", resource |-> resource, stack |-> current_stack,
     id |-> CFN_logical_id, log |-> log]

\* the interpreter's RecursionError, which nothing in the package catches
RecursionError(log) ==
    [kind |-> "RecursionError", resource |-> NoResource, stack |-> 0, id |-> "",
     log |-> log]

\* nested.split("/")[-1].replace(".json", "")
nested_name(url) == Remove(LastSegment(url), DotJson)

\* the test that sends search_stack into a nested stack's template
is_nested(resource) ==
    /\ resource.Type = NestedStack
    /\ resource.url.isStr
    /\ resource.url.s # <<>>

RECURSIVE search_stack(_, _, _, _, _, _, _)
RECURSIVE nested_loop(_, _, _, _, _, _, _, _)
RECURSIVE enter_stack(_, _, _, _, _, _, _, _)

\* The call search_stack(stack.template, stack) for stack k, made from
\* resource (si, ri), or from find_resource's own loop when si = 0.
enter_stack(asm, logical_id, resource_type, k, si, ri, depth, log) ==
    LET entered == Append(log, <<"enter", k, si, ri>>)
    IN  IF depth > RecursionLimit THEN RecursionError(entered)
        ELSE search_stack(asm, logical_id, resource_type, k, 1, depth, entered)

\* `for stack in assembly.stacks` inside search_stack, from stack k on
nested_loop(asm, logical_id, resource_type, si, ri, k, depth, log) ==
    IF k > Len(asm) THEN NotFound(log)
    ELSE IF asm[k].name = nested_name(asm[si].template[ri].resource.url.s)
         THEN LET r == enter_stack(asm, logical_id, resource_type, k, si, ri,
                                   depth + 1, log)
              IN  IF r.kind = "None"
                  THEN nested_loop(asm, logical_id, resource_type, si, ri,
                                   k + 1, depth, r.log)
                  ELSE r
         ELSE nested_loop(asm, logical_id, resource_type, si, ri, k + 1,
                          depth, log)

\* the loop over template["Resources"].items() of stack si, from entry ri on
search_stack(asm, logical_id, resource_type, si, ri, depth, log) ==
    IF ri > Len(asm[si].template) THEN NotFound(log)
    ELSE LET CFN_logical_id == asm[si].template[ri].id
             resource == asm[si].template[ri].resource
             seen == Append(log, <<"scan", si, ri, 0>>)
         IN  IF resource.Type # resource_type
             THEN search_stack(asm, logical_id, resource_type, si, ri + 1,
                               depth, seen)
             ELSE IF Contains(resource.path, PathSegment(logical_id))
             THEN Found(resource, si, CFN_logical_id, seen)
             ELSE IF is_nested(resource)
             THEN LET r == nested_loop(asm, logical_id, resource_type, si, ri,
                                       1, depth, seen)
                  IN  IF r.kind = "None"
                      THEN search_stack(asm, logical_id, resource_type, si,
                                        ri + 1, depth, r.log)
                      ELSE r
             ELSE search_stack(asm, logical_id, resource_type, si, ri + 1,
                               depth, seen)

\* `for stack in assembly.stacks` of find_resource, from stack k on
RECURSIVE find_loop(_, _, _, _, _)
find_loop(asm, logical_id, resource_type, k, log) ==
    IF k > Len(asm) THEN NotFound(log)
    ELSE LET r == enter_stack(asm, logical_id, resource_type, k, 0, 0, 1, log)
         IN  IF r.kind = "None"
             THEN find_loop(asm, logical_id, resource_type, k + 1, r.log)
             ELSE r

find_resource(asm, logical_id, resource_type) ==
    find_loop(asm, logical_id, resource_type, 1, <<>>)

---------------------------------------------------------------------------
(* The environment extractors *)

Return(value) == [kind |-> "return", value |-> value, exc |-> "", msg |-> ""]

Raise(exc, msg) == [kind |-> "raise", value |-> <<>>, exc |-> exc, msg |-> msg]

\* d[key] = value on a dict kept as its items in insertion order
DictSet(d, key, value) ==
    IF \E i \in 1..Len(d) : d[i].key = key
    THEN [i \in 1..Len(d) |-> IF d[i].key = key
                              THEN [key |-> key, value |-> value]
                              ELSE d[i]]
    ELSE Append(d, [key |-> key, value |-> value])

\* Mutant of extract_lambda_function_environment_vars: the Type is not checked.
extract_lambda_unchecked(resource_tuple) ==
    IF resource_tuple.resource.Properties.level = "Variables"
    THEN Return(resource_tuple.resource.Properties.Variables)
    ELSE Return(<<>>)

extract_lambda_function_environment_vars(resource_tuple) ==
    LET function == resource_tuple.resource
    IN  IF function.Type # LambdaFunction
        THEN Raise("ValueError", "Resource must be of type AWS::Lambda::Function")
        ELSE IF function.Properties.level = "Variables"
             THEN Return(function.Properties.Variables)
             ELSE Return(<<>>)

\* the inner loop `for env in container.get("Environment", [])`, from entry j
RECURSIVE container_loop(_, _, _)
container_loop(container, j, env_vars) ==
    IF j > Len(container) THEN env_vars
    ELSE LET name == container[j].Name
             value == container[j].Value
         IN  container_loop(container, j + 1,
                            IF Truthy(name) /\ Truthy(value)
                            THEN DictSet(env_vars, name.s, value)
                            ELSE env_vars)

\* the outer loop `for container in containers`, from container i
RECURSIVE containers_loop(_, _, _)
containers_loop(containers, i, env_vars) ==
    IF i > Len(containers) THEN env_vars
    ELSE containers_loop(containers, i + 1,
                         container_loop(containers[i], 1, env_vars))

extract_ecs_task_definition_environment_vars(resource_tuple) ==
    LET task_definition == resource_tuple.resource
        containers == IF task_definition.Properties.level = "absent"
                      THEN <<>>
                      ELSE task_definition.Properties.ContainerDefinitions
    IN  IF task_definition.Type # EcsTaskDefinition
        THEN Raise("ValueError", "Resource must be of type AWS::ECS::TaskDefinition")
        ELSE Return(containers_loop(containers, 1, <<>>))

---------------------------------------------------------------------------
(* resolve_ref *)

\* what resolve_ref hands back: the value returned or the exception raised,
\* and the describe_stack_resource calls it issued
Resolved(value, described) ==
    [kind |-> "return", value |-> value, exc |-> "", msg |-> "", calls |-> described]

Failed(exc, msg, described) ==
    [kind |-> "raise", value |-> "", exc |-> exc, msg |-> msg, calls |-> described]

NoError == [exc |-> "", msg |-> ""]

\* the isinstance checks on stack and session
check_types(stack, session) ==
    IF ~stack.isStack
    THEN [exc |-> "TypeError", msg |-> "stack must be a CloudFormationStackArtifact"]
    ELSE IF ~session.isSession
    THEN [exc |-> "TypeError", msg |-> "session must be a boto3.Session"]
    ELSE NoError

\* Mutant of validate_ref: the key is read with ref.get('Ref'), so a missing
\* key is reported as an empty value.
validate_ref_get(ref) ==
    IF ref.t # "dict"
    THEN [exc |-> "TypeError", msg |-> "ref must be a dict"]
    ELSE IF ~ref.hasRef \/ ref.rt # "str" \/ ref.s = ""
    THEN [exc |-> "ValueError", msg |-> "ref['Ref'] must be a non-empty string"]
    ELSE NoError

\* the checks on ref
validate_ref(ref) ==
    IF ref.t # "dict"
    THEN [exc |-> "TypeError", msg |-> "ref must be a dict"]
    ELSE IF ~ref.hasRef
    THEN [exc |-> "ValueError", msg |-> "ref dict must contain 'Ref' key"]
    ELSE IF ref.rt # "str" \/ ref.s = ""
    THEN [exc |-> "ValueError", msg |-> "ref['Ref'] must be a non-empty string"]
    ELSE NoError

NoRegion == "No region specified. Either configure your boto3 session with a region or deploy the CDK stack with a specific region."

\* Mutant of derive_region: the stack's region is preferred to the session's.
derive_region_stack_first(stack, session) ==
    IF stack.region # "unknown-region"
    THEN [found |-> TRUE, region |-> stack.region]
    ELSE IF session.region_name # ""
    THEN [found |-> TRUE, region |-> session.region_name]
    ELSE [found |-> FALSE, region |-> ""]

\* region: the session's when it has one, else the stack's unless that is
\* 'unknown-region', else none
derive_region(stack, session) ==
    IF session.region_name # ""
    THEN [found |-> TRUE, region |-> session.region_name]
    ELSE IF stack.region # "unknown-region"
    THEN [found |-> TRUE, region |-> stack.region]
    ELSE [found |-> FALSE, region |-> ""]

\* Mutant of describe_stack_resource: a failed call is tried once more.
describe_stack_resource_retry(describe, region, stack_name, logical_id) ==
    LET call == [StackName |-> stack_name, LogicalResourceId |-> logical_id,
                 region_name |-> region]
        response == describe[logical_id]
    IN  IF response.ok
        THEN Resolved(response.PhysicalResourceId, <<call>>)
        ELSE Failed(response.exc, response.msg, <<call, call>>)

\* CFN.describe_stack_resource(...) and the return of its PhysicalResourceId:
\* one call, whose error goes to the caller as it is
describe_stack_resource(describe, region, stack_name, logical_id) ==
    LET call == [StackName |-> stack_name, LogicalResourceId |-> logical_id,
                 region_name |-> region]
        response == describe[logical_id]
    IN  IF response.ok
        THEN Resolved(response.PhysicalResourceId, <<call>>)
        ELSE Failed(response.exc, response.msg, <<call>>)

\* resolve_ref(stack, session, ref) against the CloudFormation `describe`
resolve_ref(stack, session, ref, describe) ==
    IF check_types(stack, session) # NoError
    THEN Failed(check_types(stack, session).exc, check_types(stack, session).msg, <<>>)
    ELSE IF validate_ref(ref) # NoError
    THEN Failed(validate_ref(ref).exc, validate_ref(ref).msg, <<>>)
    ELSE IF ~derive_region(stack, session).found
    THEN Failed("ValueError", NoRegion, <<>>)
    ELSE describe_stack_resource(describe, derive_region(stack, session).region,
                                 stack.name, ref.s)

---------------------------------------------------------------------------
(* generate_sam_env_vars *)

\* What generate_sam_env_vars returns or raises; name is the identifier an
\* error message has formatted into it.
GenReturned(value) ==
    [kind |-> "return", value |-> value, exc |-> "", msg |-> "", name |-> <<>>]

GenRaised(exc, msg, name) ==
    [kind |-> "raise", value |-> <<>>, exc |-> exc, msg |-> msg, name |-> name]

\* f"Lambda function '{function_logical_id}' not found in assembly"
FunctionNotFound == "Lambda function '{function_logical_id}' not found in assembly"

\* Mutant of resolve_value: a reference that fails to resolve is swallowed
\* and left empty.
resolve_value_swallow(stack, session, value, describe) ==
    IF value.t = "dict" /\ value.hasRef
    THEN LET r == resolve_ref(stack, session, value, describe)
         IN  IF r.kind = "raise" THEN Resolved("", r.calls) ELSE r
    ELSE Resolved(str(value), <<>>)

\* Mutant of resolve_value: a reference is only told by being a dict.
resolve_value_any_dict(stack, session, value, describe) ==
    IF value.t = "dict"
    THEN resolve_ref(stack, session, value, describe)
    ELSE Resolved(str(value), <<>>)

\* the body of the loop over env_vars.items(): the value that goes into
\* resolved_env[key], or the exception of resolve_ref
resolve_value(stack, session, value, describe) ==
    IF value.t = "dict" /\ value.hasRef
    THEN resolve_ref(stack, session, value, describe)
    ELSE Resolved(str(value), <<>>)

\* the locals before the first statement
NoLocals ==
    [function_resource |-> NotFound(<<>>), env_vars |-> <<>>,
     resolved_env |-> <<>>, i |-> 0]

\* find_resource(assembly, function_logical_id, "AWS::Lambda::Function") and
\* the `if not function_resource` that follows
GenFind ==
    /\ op = "generate_sam_env_vars"
    /\ pc = "find"
    /\ LET function_resource ==
               find_resource(assembly, arg.function_logical_id, LambdaFunction)
       IN  IF function_resource.kind = "RecursionError"
           THEN /\ result' = GenRaised("RecursionError", "maximum recursion depth exceeded", <<>>)
                /\ pc' = "done"
                /\ UNCHANGED local
           ELSE IF function_resource.kind = "None"
           THEN /\ result' = GenRaised("ValueError", FunctionNotFound,
                                       arg.function_logical_id)
                /\ pc' = "done"
                /\ UNCHANGED local
           ELSE /\ local' = [local EXCEPT !.function_resource = function_resource]
                /\ pc' = "extract"
                /\ UNCHANGED result
    /\ UNCHANGED <<op, assembly, boto_session, cloud, arg, calls>>

\* env_vars = extract_lambda_function_environment_vars(function_resource);
\* resolved_env = {}
GenExtract ==
    /\ op = "generate_sam_env_vars"
    /\ pc = "extract"
    /\ LET r == extract_lambda_function_environment_vars(local.function_resource)
       IN  IF r.kind = "raise"
           THEN /\ result' = GenRaised(r.exc, r.msg, <<>>)
                /\ pc' = "done"
                /\ UNCHANGED local
           ELSE /\ local' = [local EXCEPT !.env_vars = r.value,
                                          !.resolved_env = <<>>,
                                          !.i = 1]
                /\ pc' = "resolve"
                /\ UNCHANGED result
    /\ UNCHANGED <<op, assembly, boto_session, cloud, arg, calls>>

\* one turn of `for key, value in env_vars.items()`
GenResolveEntry ==
    /\ op = "generate_sam_env_vars"
    /\ pc = "resolve"
    /\ local.i <= Len(local.env_vars)
    /\ LET key == local.env_vars[local.i].key
           value == local.env_vars[local.i].value
           stack == assembly[local.function_resource.stack]
           r == resolve_value(stack, boto_session, value, cloud)
       IN  /\ calls' = calls \o r.calls
           /\ IF r.kind = "raise"
              THEN /\ result' = GenRaised(r.exc, r.msg, <<>>)
                   /\ pc' = "done"
                   /\ UNCHANGED local
              ELSE /\ local' = [local EXCEPT
                                   !.resolved_env = DictSet(@, key, r.value),
                                   !.i = @ + 1]
                   /\ UNCHANGED <<pc, result>>
    /\ UNCHANGED <<op, assembly, boto_session, cloud, arg>>

\* return {function_logical_id: resolved_env}
GenReturn ==
    /\ op = "generate_sam_env_vars"
    /\ pc = "resolve"
    /\ local.i > Len(local.env_vars)
    /\ result' = GenReturned(<<[key |-> arg.function_logical_id,
                                value |-> local.resolved_env]>>)
    /\ pc' = "done"
    /\ UNCHANGED <<op, assembly, boto_session, cloud, arg, calls, local>>

---------------------------------------------------------------------------
(* Inputs of the find_resource calls *)

PathX == <<"A", "/", "x", "/", "R">>

PathXY == <<"A", "/", "x", "y", "/", "R">>

UrlA == UrlStr(<<"A", ".", "j", "s", "o", "n">>)

UrlB == UrlStr(<<"s", "3", "/", "B", ".", "j", "s", "o", "n">>)

FindResources ==
    { Resource(LambdaFunction, PathX, UrlAbsent, NoProperties),
      Resource(LambdaFunction, PathXY, UrlAbsent, NoProperties),
      Resource(NestedStack, PathXY, UrlA, NoProperties),
      Resource(NestedStack, <<>>, UrlB, NoProperties),
      Resource(NestedStack, PathX, UrlB, NoProperties),
      Resource(NestedStack, PathXY, UrlJoin, NoProperties) }

FindIds == {<<"x">>, <<"x", "y">>}

FindTypes == {LambdaFunction, NestedStack}

\* Where each stack's resources end in the flat list rs: cuts[0] = 0,
\* cuts[n] = Len(rs), never decreasing
Cuts(n, len) ==
    {c \in [0..n -> 0..len] :
        /\ c[0] = 0
        /\ c[n] = len
        /\ \A k \in 1..n : c[k - 1] <= c[k]}

\* The assembly of n stacks whose templates are the slices of rs cut at c
MakeAssembly(n, rs, c) ==
    [k \in 1..n |->
        [isStack |-> TRUE,
         name |-> StackName(k),
         region |-> StackRegion(k),
         template |-> [i \in 1..(c[k] - c[k - 1]) |->
                          [id |-> CfnId(i), resource |-> rs[c[k - 1] + i]]]]]

\* asm is an assembly of up to MaxStacks stacks that hold up to max of the
\* resources between them
AssemblyOf(asm, resources, max) ==
    \E n \in 1..MaxStacks, len \in 0..max :
        \E rs \in [1..len -> resources], c \in Cuts(n, len) :
            asm = MakeAssembly(n, rs, c)

---------------------------------------------------------------------------
(* Values the calls leave alone *)

NoSession == [isSession |-> TRUE, region_name |-> ""]

NoCloud == <<>>

NoResult == [kind |-> "pending"]

NoLocal == <<>>

---------------------------------------------------------------------------
(* Calls of find_resource *)

InitFind ==
    /\ op = "find_resource"
    /\ pc = "call"
    /\ AssemblyOf(assembly, FindResources, MaxResources)
    /\ \E x \in FindIds, t \in FindTypes :
           arg = [logical_id |-> x, resource_type |-> t]
    /\ boto_session = NoSession
    /\ cloud = NoCloud
    /\ result = NoResult
    /\ calls = <<>>
    /\ local = NoLocal

FindResource ==
    /\ op = "find_resource"
    /\ pc = "call"
    /\ result' = find_resource(assembly, arg.logical_id, arg.resource_type)
    /\ pc' = "done"
    /\ UNCHANGED <<op, assembly, boto_session, cloud, arg, calls, local>>

NextFind == FindResource

SpecFind == InitFind /\ [][NextFind]_vars

---------------------------------------------------------------------------
(* Calls of the two extractors *)

\* the names of a function's variables by position in Variables
EnvKey(i) == <<"BUCKET_NAME", "TABLE_NAME", "QUEUE_URL", "TOPIC_ARN">>[i]

\* Variables with the values vs, in order
MakeVariables(vs) == [i \in 1..Len(vs) |-> [key |-> EnvKey(i), value |-> vs[i]]]

VariablesOf(values) ==
    UNION {{MakeVariables(vs) : vs \in [1..len -> values]} : len \in 0..MaxEnv}

ExtractValues == {PyRef("ExampleBucketDC717CF4"), PyStr("plain"), PyInt(7)}

LambdaProperties ==
    {Props(level, <<>>, <<>>) : level \in {"absent", "Properties", "Environment"}}
    \cup {Props("Variables", v, <<>>) : v \in VariablesOf(ExtractValues)}

Entry(name, value) == [Name |-> name, Value |-> value]

EcsEntries ==
    { Entry(PyStr("BUCKET_NAME"), PyStr("v1")),
      Entry(PyStr("BUCKET_NAME"), PyStr("v2")),
      Entry(PyStr("TABLE_NAME"), PyRef("ExampleTable114D508F")),
      Entry(PyStr("BUCKET_NAME"), PyStr("")),
      Entry(PyNone, PyStr("v1")),
      Entry(PyStr("BUCKET_NAME"), PyNone) }

\* the n containers whose Environment lists are the slices of es cut at c
MakeContainers(n, es, c) ==
    [k \in 1..n |-> [i \in 1..(c[k] - c[k - 1]) |-> es[c[k - 1] + i]]]

ExtractTypes == {LambdaFunction, EcsTaskDefinition, DynamoTable, NoType}

\* a is the argument of an extractor: the tuple find_resource gives for a
\* function's resource, or for a task definition's with up to MaxContainers
\* containers and up to MaxEntries entries between them, under any Type
ExtractArg(a) ==
    \/ \E t \in ExtractTypes, pr \in LambdaProperties :
           a = [resource_tuple |->
                   Found(Resource(t, PathX, UrlAbsent, pr), 1, CfnId(1), <<>>)]
    \/ \E t \in ExtractTypes \ {DynamoTable}, n \in 0..MaxContainers, len \in 0..MaxEntries :
           \E es \in [1..len -> EcsEntries], c \in Cuts(n, len) :
               a = [resource_tuple |->
                       Found(Resource(t, PathX, UrlAbsent,
                                      Props("Properties", <<>>, MakeContainers(n, es, c))),
                             1, CfnId(1), <<>>)]

InitExtract ==
    /\ op \in {"extract_lambda_function_environment_vars",
               "extract_ecs_task_definition_environment_vars"}
    /\ pc = "call"
    /\ ExtractArg(arg)
    /\ assembly = <<>>
    /\ boto_session = NoSession
    /\ cloud = NoCloud
    /\ result = NoResult
    /\ calls = <<>>
    /\ local = NoLocal

ExtractLambda ==
    /\ op = "extract_lambda_function_environment_vars"
    /\ pc = "call"
    /\ result' = extract_lambda_function_environment_vars(arg.resource_tuple)
    /\ pc' = "done"
    /\ UNCHANGED <<op, assembly, boto_session, cloud, arg, calls, local>>

ExtractEcs ==
    /\ op = "extract_ecs_task_definition_environment_vars"
    /\ pc = "call"
    /\ result' = extract_ecs_task_definition_environment_vars(arg.resource_tuple)
    /\ pc' = "done"
    /\ UNCHANGED <<op, assembly, boto_session, cloud, arg, calls, local>>

NextExtract == ExtractLambda \/ ExtractEcs

SpecExtract == InitExtract /\ [][NextExtract]_vars

---------------------------------------------------------------------------
(* Calls of resolve_ref *)

PhysicalId(id) == [ok |-> TRUE, PhysicalResourceId |-> id, exc |-> "", msg |-> ""]

DescribeError(exc, msg) == [ok |-> FALSE, PhysicalResourceId |-> "", exc |-> exc, msg |-> msg]

LogicalIds == {"BucketLogicalId", "TableLogicalId", "Undeployed"}

\* The deployed stack: two resources with physical ids, and a logical id
\* CloudFormation does not know.
Deployed ==
    [l \in LogicalIds |->
        CASE l = "BucketLogicalId" -> PhysicalId("my-bucket-abc123")
          [] l = "TableLogicalId" -> PhysicalId("MyTable-XYZ789")
          [] OTHER -> DescribeError("ClientError", "ValidationError: resource does not exist")]

\* No connection: every call fails in the transport.
Unreachable ==
    [l \in LogicalIds |-> DescribeError("EndpointConnectionError", "could not connect")]

Clouds == {Deployed, Unreachable}

Sessions ==
    {[isSession |-> TRUE, region_name |-> r] : r \in {"", "us-east-1"}}

NotASession == [isSession |-> FALSE, region_name |-> ""]

NotAStack == [isStack |-> FALSE, name |-> <<>>, region |-> "", template |-> <<>>]

\* two stacks without resources: one with a region, one synthesized without
TwoStacks == MakeAssembly(2, <<>>, [k \in 0..2 |-> 0])

ResolveRefs ==
    { PyStr("BucketLogicalId"),
      PyNone,
      PyEmptyDict,
      PyGetAtt,
      PyRefInt(7),
      PyRef(""),
      PyRef("BucketLogicalId"),
      PyRef("Undeployed"),
      PyRefAnd("TableLogicalId") }

InitResolve ==
    /\ op = "resolve_ref"
    /\ pc = "call"
    /\ assembly = TwoStacks
    /\ \E st \in {assembly[1], assembly[2], NotAStack}, ref \in ResolveRefs :
           arg = [stack |-> st, ref |-> ref]
    /\ boto_session \in Sessions \cup {NotASession}
    /\ cloud \in Clouds
    /\ result = NoResult
    /\ calls = <<>>
    /\ local = NoLocal

\* what a caller sees of a call: the value or the exception
Outcome(r) == [kind |-> r.kind, value |-> r.value, exc |-> r.exc, msg |-> r.msg]

ResolveRef ==
    /\ op = "resolve_ref"
    /\ pc = "call"
    /\ LET r == resolve_ref(arg.stack, boto_session, arg.ref, cloud)
       IN  /\ result' = Outcome(r)
           /\ calls' = calls \o r.calls
    /\ pc' = "done"
    /\ UNCHANGED <<op, assembly, boto_session, cloud, arg, local>>

NextResolve == ResolveRef

SpecResolve == InitResolve /\ [][NextResolve]_vars

---------------------------------------------------------------------------
(* Calls of generate_sam_env_vars *)

GenValues ==
    { PyRef("BucketLogicalId"),
      PyRef("Undeployed"),
      PyRef(""),
      PyStr("plain"),
      PyInt(7),
      PyGetAtt }

GenProperties ==
    {Props("absent", <<>>, <<>>)}
    \cup {Props("Variables", v, <<>>) : v \in VariablesOf(GenValues)}

\* another function, whose path has the identifier only as a prefix
OtherFunction ==
    Resource(LambdaFunction, PathXY, UrlAbsent,
             Props("Variables", MakeVariables(<<PyRef("TableLogicalId")>>), <<>>))

\* the function of the assembly, declaring pr
TheFunctionWith(pr) == Resource(LambdaFunction, PathX, UrlAbsent, pr)

\* a resource of another type with the identifier in its path: a nested
\* stack whose TemplateURL names the first stack of the assembly
NotAFunction == Resource(NestedStack, PathX, UrlA, NoProperties)

InitGen ==
    /\ op = "generate_sam_env_vars"
    /\ pc = "find"
    /\ \E pr \in GenProperties :
           AssemblyOf(assembly, {TheFunctionWith(pr), OtherFunction, NotAFunction},
                      MaxGenResources)
    /\ arg = [function_logical_id |-> <<"x">>]
    /\ boto_session \in Sessions
    /\ cloud \in Clouds
    /\ result = NoResult
    /\ calls = <<>>
    /\ local = NoLocals

NextGen == GenFind \/ GenExtract \/ GenResolveEntry \/ GenReturn

SpecGen == InitGen /\ [][NextGen]_vars

---------------------------------------------------------------------------
(* Claims about find_resource *)

FindDone == op = "find_resource" /\ pc = "done"

\* the positions <<stack, entry>> of the assembly's resources
Positions ==
    {p \in (1..Len(assembly)) \X (1..MaxResources + 1) :
        p[2] <= Len(assembly[p[1]].template)}

ResourceAt(p) == assembly[p[1]].template[p[2]].resource

\* the resources with the queried type and '/X/' in their path
Matching ==
    {p \in Positions :
        /\ ResourceAt(p).Type = arg.resource_type
        /\ \E i \in 1..Len(ResourceAt(p).path) :
               /\ i + Len(arg.logical_id) + 1 <= Len(ResourceAt(p).path)
               /\ ResourceAt(p).path[i] = "/"
               /\ ResourceAt(p).path[i + Len(arg.logical_id) + 1] = "/"
               /\ \A j \in 1..Len(arg.logical_id) :
                      ResourceAt(p).path[i + j] = arg.logical_id[j]}

\* the queried identifier occurs somewhere in the resource's path
Occurs(p) ==
    \E i \in 0..Len(ResourceAt(p).path) :
        /\ i + Len(arg.logical_id) <= Len(ResourceAt(p).path)
        /\ \A j \in 1..Len(arg.logical_id) :
               ResourceAt(p).path[i + j] = arg.logical_id[j]

\* the result is the resource at p, with p's stack and p's synthesized id
Returns(p) ==
    /\ result.kind = "found"
    /\ result.resource = ResourceAt(p)
    /\ result.stack = p[1]
    /\ result.id = assembly[p[1]].template[p[2]].id

C7_NotFoundReturnsNone ==
    (FindDone /\ Matching = {}) => result.kind = "None"

\* the nested-stack resource at p names the assembly stack k
Names(p, k) ==
    /\ ResourceAt(p).Type = NestedStack
    /\ ResourceAt(p).url.isStr
    /\ LET url == ResourceAt(p).url.s
           cut == CHOOSE i \in 0..Len(url) :
                      /\ i = 0 \/ url[i] = "/"
                      /\ \A j \in (i + 1)..Len(url) : url[j] # "/"
       IN  SubSeq(url, cut + 1, Len(url)) = assembly[k].name \o DotJson

\* the search looked at the resource at p and went on past it
Passed(p) ==
    /\ \E i \in 1..Len(result.log) : result.log[i] = <<"scan", p[1], p[2], 0>>
    /\ ~Returns(p)

\* C8 as claimed: for every queried type, on passing a nested-stack resource
\* whose TemplateURL file name, less .json, is the name of assembly stack N,
\* find_resource recurses from that resource into N's template.
C8_RecursesIntoNestedStack ==
    FindDone =>
        \A p \in Positions : \A k \in 1..Len(assembly) :
            (Names(p, k) /\ Passed(p)) =>
                \E i \in 1..Len(result.log) :
                    result.log[i] = <<"enter", k, p[1], p[2]>>

---------------------------------------------------------------------------
(* Claims about the extractors *)

LambdaDone == op = "extract_lambda_function_environment_vars" /\ pc = "done"

EcsDone == op = "extract_ecs_task_definition_environment_vars" /\ pc = "done"

Given == arg.resource_tuple.resource

\* the Environment entries of the given task definition, as <<container, entry>>
GivenEntries ==
    {e \in (1..MaxContainers + 1) \X (1..MaxEntries + 1) :
        /\ Given.Properties.level # "absent"
        /\ e[1] <= Len(Given.Properties.ContainerDefinitions)
        /\ e[2] <= Len(Given.Properties.ContainerDefinitions[e[1]])}

EntryAt(e) == Given.Properties.ContainerDefinitions[e[1]][e[2]]

\* the entry has both a Name and a Value
Complete(e) == EntryAt(e).Name.t # "None" /\ EntryAt(e).Value.t # "None"

ResultKeys == {result.value[i].key : i \in 1..Len(result.value)}

ResultAt(key) ==
    result.value[CHOOSE i \in 1..Len(result.value) : result.value[i].key = key].value

\* C9 as claimed: the task-definition extractor returns one flat mapping in
\* which every entry with both a Name and a Value contributes its name, an
\* entry missing a Name or a Value contributes nothing, and a name found in
\* several containers maps to the Value of its entry in the latest container.
C9_EcsFlattensEveryCompleteEntry ==
    (EcsDone /\ Given.Type = EcsTaskDefinition) =>
        /\ result.kind = "return"
        /\ \A e \in GivenEntries : Complete(e) => EntryAt(e).Name.s \in ResultKeys
        /\ \A key \in ResultKeys :
               \E e \in GivenEntries : Complete(e) /\ EntryAt(e).Name.s = key
        /\ \A key \in ResultKeys :
               LET with == {e \in GivenEntries : Complete(e) /\ EntryAt(e).Name.s = key}
                   latest == {e \in with : \A f \in with : f[1] <= e[1]}
               IN  \E e \in latest : ResultAt(key) = EntryAt(e).Value

\* C10: the function extractor raises the type-mismatch ValueError for every
\* resource whose Type is not AWS::Lambda::Function, the task extractor for
\* every resource whose Type is not AWS::ECS::TaskDefinition (no Type
\* included), and then returns no mapping; for a function the declared
\* Variables come back unchanged, and an empty mapping when Properties,
\* Environment or Variables is absent.
C10_ExtractorsCheckType ==
    /\ (LambdaDone /\ Given.Type # "AWS::Lambda::Function") =>
           /\ result.kind = "raise"
           /\ result.exc = "ValueError"
           /\ result.msg = "Resource must be of type AWS::Lambda::Function"
           /\ result.value = <<>>
    /\ (EcsDone /\ Given.Type # "AWS::ECS::TaskDefinition") =>
           /\ result.kind = "raise"
           /\ result.exc = "ValueError"
           /\ result.msg = "Resource must be of type AWS::ECS::TaskDefinition"
           /\ result.value = <<>>
    /\ (LambdaDone /\ Given.Type = "AWS::Lambda::Function") =>
           /\ result.kind = "return"
           /\ Given.Properties.level = "Variables" =>
                  result.value = Given.Properties.Variables
           /\ Given.Properties.level # "Variables" => result.value = <<>>

\* C10 witness: the function extractor has refused a resource that has no
\* Type and declares two variables.
C10_WitnessRefused ==
    /\ LambdaDone
    /\ Given.Type = NoType
    /\ Given.Properties.level = "Variables"
    /\ Len(Given.Properties.Variables) = 2
    /\ result.kind = "raise"

---------------------------------------------------------------------------
(* Claims about resolve_ref *)

ResolveDone == op = "resolve_ref" /\ pc = "done"

\* stack and session are what their parameters' types say
RightTypes == arg.stack.isStack /\ boto_session.isSession

\* what is wrong with a reference, if anything
Malformation(ref) ==
    CASE ref.t # "dict" -> "not a mapping"
      [] ref.t = "dict" /\ ~ref.hasRef -> "no Ref key"
      [] ref.t = "dict" /\ ref.hasRef /\ ref.rt # "str" -> "Ref not a string"
      [] ref.t = "dict" /\ ref.hasRef /\ ref.rt = "str" /\ ref.s = "" -> "Ref empty"
      [] OTHER -> "valid"

RegionDerivable ==
    boto_session.region_name # "" \/ arg.stack.region # "unknown-region"

\* C3: for a valid reference {Ref: X} and a derivable region, resolve_ref
\* issues exactly one describe-stack-resource call, with the stack's name and
\* X, and returns the call's PhysicalResourceId as it is; a failing call is
\* not repeated and its error reaches the caller as it is.
C3_OneDescribeCall ==
    /\ Len(calls) <= 1
    /\ (ResolveDone /\ RightTypes /\ Malformation(arg.ref) = "valid" /\ RegionDerivable) =>
           /\ Len(calls) = 1
           /\ calls[1].StackName = arg.stack.name
           /\ calls[1].LogicalResourceId = arg.ref.s
           /\ cloud[arg.ref.s].ok =>
                  /\ result.kind = "return"
                  /\ result.value = cloud[arg.ref.s].PhysicalResourceId
           /\ ~cloud[arg.ref.s].ok =>
                  /\ result.kind = "raise"
                  /\ result.exc = cloud[arg.ref.s].exc
                  /\ result.msg = cloud[arg.ref.s].msg

\* C3 witness: the one call failed in CloudFormation and the caller has its
\* error.
C3_WitnessCallFailed ==
    /\ ResolveDone
    /\ arg.ref = PyRef("Undeployed")
    /\ Len(calls) = 1
    /\ result.exc = "ClientError"

\* the exception a caller sees
ErrorOf(r) == <<r.kind, r.exc, r.msg>>

\* C4 as claimed: each of the four malformed references (not a mapping, no
\* 'Ref' key, 'Ref' not a string, 'Ref' empty) is rejected with an error the
\* caller can tell from the errors of the other three, and no describe call
\* is issued.
C4_Original ==
    (ResolveDone /\ RightTypes /\ Malformation(arg.ref) # "valid") =>
        /\ result.kind = "raise"
        /\ calls = <<>>
        /\ \A other \in ResolveRefs :
               (Malformation(other) \notin {"valid", Malformation(arg.ref)}) =>
                   ErrorOf(resolve_ref(arg.stack, boto_session, other, cloud))
                       # ErrorOf(result)

\* C4 amended: resolve_ref rejects a malformed reference with one of three
\* errors the caller can tell apart: TypeError 'ref must be a dict' when it is
\* not a mapping, ValueError "ref dict must contain 'Ref' key" when the key
\* is missing, and the one ValueError "ref['Ref'] must be a non-empty string"
\* both when the value is not a string and when it is the empty string; in
\* each case no describe call is issued.
C4_ThreeErrors ==
    (ResolveDone /\ RightTypes /\ Malformation(arg.ref) # "valid") =>
        /\ calls = <<>>
        /\ Malformation(arg.ref) = "not a mapping" =>
               ErrorOf(result) = <<"raise", "TypeError", "ref must be a dict">>
        /\ Malformation(arg.ref) = "no Ref key" =>
               ErrorOf(result) = <<"raise", "ValueError", "ref dict must contain 'Ref' key">>
        /\ Malformation(arg.ref) \in {"Ref not a string", "Ref empty"} =>
               ErrorOf(result) = <<"raise", "ValueError", "ref['Ref'] must be a non-empty string">>

\* C4 witness: the empty reference value has been rejected.
C4_WitnessEmptyRejected ==
    /\ ResolveDone
    /\ RightTypes
    /\ arg.ref = PyRef("")
    /\ result.kind = "raise"

\* C5: for a valid reference, the describe call is made in the session's
\* region when the session has one, whatever the stack declares; else in the
\* stack's region when that is not 'unknown-region'; else resolve_ref fails
\* with the 'no region' ValueError and issues no describe call.
C5_RegionDerivation ==
    (ResolveDone /\ RightTypes /\ Malformation(arg.ref) = "valid") =>
        /\ boto_session.region_name # "" =>
               /\ Len(calls) = 1
               /\ calls[1].region_name = boto_session.region_name
        /\ (boto_session.region_name = "" /\ arg.stack.region # "unknown-region") =>
               /\ Len(calls) = 1
               /\ calls[1].region_name = arg.stack.region
        /\ (boto_session.region_name = "" /\ arg.stack.region = "unknown-region") =>
               /\ calls = <<>>
               /\ result.kind = "raise"
               /\ result.exc = "ValueError"
               /\ result.msg = NoRegion

\* C5 witness: the session's region and the stack's differ, and the call
\* went to the session's.
C5_WitnessSessionRegionWins ==
    /\ ResolveDone
    /\ boto_session.region_name = "us-east-1"
    /\ arg.stack.region = "eu-west-1"
    /\ Len(calls) = 1
    /\ calls[1].region_name = "us-east-1"

---------------------------------------------------------------------------
(* Claims about generate_sam_env_vars *)

GenDone == op = "generate_sam_env_vars" /\ pc = "done"

\* the functions whose path has '/F/' in it
Functions ==
    {p \in Positions :
        /\ ResourceAt(p).Type = "AWS::Lambda::Function"
        /\ \E i \in 1..Len(ResourceAt(p).path) :
               /\ i + Len(arg.function_logical_id) + 1 <= Len(ResourceAt(p).path)
               /\ ResourceAt(p).path[i] = "/"
               /\ ResourceAt(p).path[i + Len(arg.function_logical_id) + 1] = "/"
               /\ \A j \in 1..Len(arg.function_logical_id) :
                      ResourceAt(p).path[i + j] = arg.function_logical_id[j]}

\* the function found: the first in stack order, then in template order
TheFunction ==
    CHOOSE p \in Functions :
        \A q \in Functions : p[1] < q[1] \/ (p[1] = q[1] /\ p[2] <= q[2])

\* the environment the function at p declares, as its items in order
DeclaredAt(p) ==
    IF ResourceAt(p).Properties.level = "Variables"
    THEN ResourceAt(p).Properties.Variables
    ELSE <<>>

IsReference(v) == v.t = "dict" /\ v.hasRef

\* the error resolve_ref ends in for the reference v against the stack of the
\* function at p; <<"", "">> when it resolves
FailureOf(v, p) ==
    IF v.rt # "str" \/ v.s = ""
    THEN <<"ValueError", "ref['Ref'] must be a non-empty string">>
    ELSE IF boto_session.region_name = "" /\ assembly[p[1]].region = "unknown-region"
    THEN <<"ValueError", NoRegion>>
    ELSE IF ~cloud[v.s].ok
    THEN <<cloud[v.s].exc, cloud[v.s].msg>>
    ELSE <<"", "">>

\* the declared entries that are references and fail to resolve
Failing(declared, p) ==
    {i \in 1..Len(declared) :
        IsReference(declared[i].value) /\ FailureOf(declared[i].value, p) # <<"", "">>}

\* the string form of the declared values that are no references
StringForm(v) ==
    CASE v = PyStr("plain") -> "plain"
      [] v = PyInt(7) -> "7"
      [] v = PyGetAtt -> "{'Fn::GetAtt': ['T', 'Arn']}"

\* C1: when the function F is found and every reference resolves, the result
\* is a mapping with the one key F, whose value has exactly the declared
\* variable names as keys; a declared {Ref: L} has become the physical id
\* that describe-stack-resource gives for L in the function's stack, and
\* every other declared value its string form.
C1_ResolvedEnvironment ==
    (GenDone /\ Functions # {}) =>
        LET function == TheFunction
            declared == DeclaredAt(function)
        IN  Failing(declared, function) = {} =>
                /\ result.kind = "return"
                /\ Len(result.value) = 1
                /\ result.value[1].key = arg.function_logical_id
                /\ Len(result.value[1].value) = Len(declared)
                /\ \A i \in 1..Len(declared) :
                       /\ result.value[1].value[i].key = declared[i].key
                       /\ IsReference(declared[i].value) =>
                              /\ result.value[1].value[i].value
                                     = cloud[declared[i].value.s].PhysicalResourceId
                              /\ \E c \in 1..Len(calls) :
                                     /\ calls[c].StackName = assembly[function[1]].name
                                     /\ calls[c].LogicalResourceId = declared[i].value.s
                       /\ ~IsReference(declared[i].value) =>
                              result.value[1].value[i].value = StringForm(declared[i].value)

\* C1 witness: the function lies in the second stack and declares a reference
\* and a number; both came back, the reference as the bucket's physical id.
C1_WitnessResolved ==
    /\ GenDone
    /\ result.kind = "return"
    /\ local.function_resource.stack = 2
    /\ Len(local.env_vars) = 2
    /\ local.env_vars[1].value = PyRef("BucketLogicalId")
    /\ local.env_vars[2].value = PyInt(7)
    /\ result.value[1].value[1].value = "my-bucket-abc123"

\* C2: generate_sam_env_vars returns a mapping with every declared variable
\* in it, or it fails as a whole: when a reference fails (in its validation,
\* in the region derivation or in the describe call), the error of the first
\* reference to fail is the caller's error, unchanged, and no mapping comes
\* back, not even the entries resolved before it.
C2_NoPartialResults ==
    GenDone =>
        /\ result.kind \in {"return", "raise"}
        /\ result.kind = "raise" => result.value = <<>>
        /\ result.kind = "return" => Functions # {}
        /\ Functions # {} =>
               LET function == TheFunction
                   declared == DeclaredAt(function)
                   failing == Failing(declared, function)
               IN  /\ result.kind = "return" =>
                          /\ failing = {}
                          /\ Len(result.value[1].value) = Len(declared)
                          /\ \A i \in 1..Len(declared) :
                                 result.value[1].value[i].key = declared[i].key
                   /\ failing # {} =>
                          LET first == CHOOSE i \in failing : \A k \in failing : i <= k
                          IN  /\ result.kind = "raise"
                              /\ <<result.exc, result.msg>>
                                     = FailureOf(declared[first].value, function)

\* C2 witness: the first variable was resolved, the describe call for the
\* second failed, and the caller got the error and nothing else.
C2_WitnessSecondFails ==
    /\ GenDone
    /\ Len(local.env_vars) = 2
    /\ Len(local.resolved_env) = 1
    /\ Len(calls) = 2
    /\ result.kind = "raise"
    /\ result.exc = "ClientError"
    /\ result.value = <<>>

\* C11: when the assembly holds no AWS::Lambda::Function resource whose path
\* has '/F/' in it, generate_sam_env_vars(assembly, session, F) fails with
\* the ValueError that names F as not found; no describe call has been
\* issued and no mapping comes back.
C11_FunctionNotFound ==
    (GenDone /\ Functions = {}) =>
        /\ result.kind = "raise"
        /\ result.exc = "ValueError"
        /\ result.msg = FunctionNotFound
        /\ result.name = arg.function_logical_id
        /\ result.value = <<>>
        /\ calls = <<>>

\* C11 witness: the assembly holds a function whose path has the identifier
\* only as a prefix of a segment, and a resource of another type with '/F/'
\* in its path; the call has failed with the not-found error.
C11_WitnessOnlyNearMisses ==
    /\ GenDone
    /\ Functions = {}
    /\ \E p \in Positions : ResourceAt(p) = OtherFunction
    /\ \E p \in Positions : ResourceAt(p) = NotAFunction
    /\ result.kind = "raise"
    /\ result.msg = FunctionNotFound
    /\ calls = <<>>

---------------------------------------------------------------------------
(* Claims about the visiting order of find_resource *)

\* no position: the visit ended without a match
Nowhere == <<0, 0>>

\* no position: the visit follows nested stacks that name each other and
\* never ends
Endless == <<0, 1>>

\* The first match of the depth-first visit of stack k from entry ri on: a
\* match is taken where it stands; a nested-stack resource that is no match
\* has the whole template of the stack it names visited before the entries
\* that follow it.
RECURSIVE VisitFrom(_, _, _)
VisitFrom(k, ri, depth) ==
    IF depth > Len(assembly) THEN Endless
    ELSE IF ri > Len(assembly[k].template) THEN Nowhere
    ELSE IF <<k, ri>> \in Matching THEN <<k, ri>>
    ELSE LET named == {j \in 1..Len(assembly) : Names(<<k, ri>>, j)}
             inner == IF named = {} THEN Nowhere
                      ELSE VisitFrom(CHOOSE j \in named : TRUE, 1, depth + 1)
         IN  IF inner = Nowhere THEN VisitFrom(k, ri + 1, depth) ELSE inner

\* The first match of the visit of the stacks in list order, from stack k on
RECURSIVE VisitStacks(_)
VisitStacks(k) ==
    IF k > Len(assembly) THEN Nowhere
    ELSE LET first == VisitFrom(k, 1, 1)
         IN  IF first = Nowhere THEN VisitStacks(k + 1) ELSE first

\* C12 as claimed: when several resources have the queried type and '/X/' in
\* their path, find_resource returns the one that comes first in the visit
\* of the stacks in list order, of each stack's resources in map order, and
\* of the whole template a nested-stack resource names before the resources
\* that follow it, whatever the queried type is.
C12_FirstInVisitingOrder ==
    (FindDone /\ Cardinality(Matching) >= 2) =>
        LET first == VisitStacks(1)
        IN  first \in Positions => Returns(first)

\* The same order with the nested-stack descent only for queries of the
\* nested-stack type, which is where search_stack makes it.
NestedStackQueriesFollowTheOrder ==
    (FindDone /\ Cardinality(Matching) >= 2 /\ arg.resource_type = NestedStack) =>
        LET first == VisitStacks(1)
        IN  first \in Positions => Returns(first)

====
